---- MODULE Spec2Model ----
(***************************************************************************)
(* Model of src/src/main.rs: a ledger (HashMap<String, User>) of accounts  *)
(* holding notes, User::add_note / remove_note / merge_notes, and          *)
(* verify_transaction, which applies a Transaction to the ledger.          *)
(*                                                                         *)
(* The ledger is built as main builds it (accounts created, notes added),  *)
(* then verify_transaction and merge_notes are called on it in any order;  *)
(* calls counts these calls.  The variables op, args, tx, result, removed   *)
(* and before record the last call, its inputs, its return value and the   *)
(* ledger it was called on; twice tells that the call before it was the    *)
(* same merge_notes call.                                                   *)
(*                                                                         *)
(* SpecAccount is the specification of one account on its own: any list of *)
(* notes, on which merge_notes and remove_note are called.                 *)
(***************************************************************************)
EXTENDS Integers, Sequences, FiniteSets, TLC

VARIABLES users, calls, op, args, tx, result, removed, twice, before,
          accepted, distinct0

vars == <<users, calls, op, args, tx, result, removed, twice, before,
          accepted, distinct0>>

-----------------------------------------------------------------------------
(* Bounds *)

\* notes added to the ledger before the first transaction
MaxInitNotes == 1
\* calls of verify_transaction and merge_notes made on the ledger
MaxCalls == 2
\* notes of the account SpecAccount starts from
MaxAccountNotes == 3

\* "Alice" is the identity verify_transaction debits
Identities == {"Alice", "Bob"}
\* the identities a transaction may name; "Carol" never has an account
Recipients == Identities \cup {"Carol"}
AssetTypes == {"BTC", "ETH"}
Amounts == {50, 100}
\* the amounts of the notes of an account on its own
AccountAmounts == {0, 50, 100}

-----------------------------------------------------------------------------
(* Note, commitment, Transaction *)

Note(asset_type, amount) == [asset_type |-> asset_type, amount |-> amount]

NoteInputs == {Note(t, a) : t \in AssetTypes, a \in Amounts}

\* the notes an account on its own may start with
AccountNotes == {Note(t, a) : t \in AssetTypes, a \in AccountAmounts}

NoNote == Note("", 0)

\* the string's contribution to the hash state
AssetTag(asset_type) ==
    CASE asset_type = "BTC" -> 1
      [] asset_type = "ETH" -> 2
      [] OTHER -> 0

\* Note::commit hashes (asset_type, amount) with DefaultHasher.  The hash is
\* a deterministic function of the note's content alone; it is modelled by
\* a mixing function that is collision-free on the amounts the model reaches
\* (amounts stay below 30000: every note is an input, the minted
\* {BTC,50}, or a sum of at most MaxInitNotes + 2 * MaxCalls of those, or
\* of at most MaxAccountNotes of those in SpecAccount).
commit(note) == AssetTag(note.asset_type) * 1000003 + note.amount * 31 + 17

Commits == {commit(n) : n \in NoteInputs}

Transaction_new(from, to, to_note) ==
    [from_commit |-> commit(from), to |-> to, to_commit |-> commit(to_note)]

NoTx == [from_commit |-> 0, to |-> "", to_commit |-> 0]

-----------------------------------------------------------------------------
(* User *)

User_new(id) == [id |-> id, notes |-> << >>]

add_note(user, note) == [user EXCEPT !.notes = Append(@, note)]

\* mutant: the last matching note is chosen instead of the first
position_last(notes, c) ==
    IF \E i \in 1..Len(notes) : commit(notes[i]) = c
    THEN CHOOSE i \in 1..Len(notes) :
            /\ commit(notes[i]) = c
            /\ \A j \in (i + 1)..Len(notes) : commit(notes[j]) # c
    ELSE 0

\* index of the first note whose commitment is c, 0 when there is none
position(notes, c) ==
    IF \E i \in 1..Len(notes) : commit(notes[i]) = c
    THEN CHOOSE i \in 1..Len(notes) :
            /\ commit(notes[i]) = c
            /\ \A j \in 1..(i - 1) : commit(notes[j]) # c
    ELSE 0

RemoveAt(notes, pos) ==
    [i \in 1..(Len(notes) - 1) |-> IF i < pos THEN notes[i] ELSE notes[i + 1]]

\* mutant: the matching note is found but not taken out
remove_note_keeps(user, c) ==
    LET pos == position(user.notes, c)
    IN  IF pos # 0
        THEN [user |-> user, ret |-> user.notes[pos]]
        ELSE [user |-> user, ret |-> NoNote]

\* returns the account after the call and the returned Option<Note>
\* (NoNote stands for None)
remove_note(user, c) ==
    LET pos == position(user.notes, c)
    IN  IF pos # 0
        THEN [user |-> [user EXCEPT !.notes = RemoveAt(@, pos)],
              ret  |-> user.notes[pos]]
        ELSE [user |-> user, ret |-> NoNote]

RECURSIVE SumOf(_, _)
\* sum of the amounts of the notes of one asset type
SumOf(notes, asset_type) ==
    IF notes = << >> THEN 0
    ELSE (IF Head(notes).asset_type = asset_type THEN Head(notes).amount ELSE 0)
         + SumOf(Tail(notes), asset_type)

\* the notes kept by the retain closure: those of another asset type
Retain(notes, asset_type) ==
    SelectSeq(notes, LAMBDA n : n.asset_type # asset_type)

\* the amount of the last note of one asset type, 0 when there is none
LastAmountOf(notes, asset_type) ==
    LET matching == SelectSeq(notes, LAMBDA n : n.asset_type = asset_type)
    IN  IF matching = << >> THEN 0 ELSE matching[Len(matching)].amount

\* mutant: the closure assigns the amount (=) instead of accumulating (+=)
merge_notes_assigns(user, asset_type) ==
    LET amount == LastAmountOf(user.notes, asset_type)
        kept   == [user EXCEPT !.notes = Retain(@, asset_type)]
    IN  IF amount > 0
        THEN add_note(kept, Note(asset_type, amount))
        ELSE kept

\* mutant: the closure keeps every note, so the originals stay
merge_notes_keeps_originals(user, asset_type) ==
    LET amount == SumOf(user.notes, asset_type)
    IN  IF amount > 0
        THEN add_note(user, Note(asset_type, amount))
        ELSE user

\* amount is a u64; the amounts of the model stay far below 2^64, so the
\* += of the closure never overflows
merge_notes(user, asset_type) ==
    LET amount == SumOf(user.notes, asset_type)
        kept   == [user EXCEPT !.notes = Retain(@, asset_type)]
    IN  IF amount > 0
        THEN add_note(kept, Note(asset_type, amount))
        ELSE kept

-----------------------------------------------------------------------------
(* verify_transaction *)

\* mutant: the sender is debited before the recipient is looked up
verify_transaction_debits_first(us, transaction) ==
    LET debited ==
            IF "Alice" \in DOMAIN us
            THEN [us EXCEPT !["Alice"] =
                        remove_note(@, transaction.from_commit).user]
            ELSE us
    IN  IF transaction.to \in DOMAIN debited
        THEN LET credited == [debited EXCEPT ![transaction.to] =
                                    add_note(@, Note("BTC", 50))]
             IN  IF "Alice" \in DOMAIN credited
                 THEN [users |-> [credited EXCEPT !["Alice"] =
                                     add_note(@, Note("BTC", 50))],
                       ret |-> TRUE]
                 ELSE [users |-> credited, ret |-> FALSE]
        ELSE [users |-> debited, ret |-> FALSE]

\* mutant: the call is rejected when Alice holds no note with from_commit
verify_transaction_checks_source(us, transaction) ==
    IF transaction.to \in DOMAIN us
    THEN LET credited == [us EXCEPT ![transaction.to] =
                                add_note(@, Note("BTC", 50))]
         IN  IF /\ "Alice" \in DOMAIN credited
                /\ remove_note(credited["Alice"], transaction.from_commit).ret
                      # NoNote
             THEN [users |-> [credited EXCEPT !["Alice"] =
                                 add_note(remove_note(@, transaction.from_commit).user,
                                          Note("BTC", 50))],
                   ret |-> TRUE]
             ELSE [users |-> credited, ret |-> FALSE]
    ELSE [users |-> us, ret |-> FALSE]

\* mutant: the source note is removed from every account holding it
verify_transaction_debits_all(us, transaction) ==
    IF transaction.to \in DOMAIN us
    THEN LET credited == [us EXCEPT ![transaction.to] =
                                add_note(@, Note("BTC", 50))]
         IN  IF "Alice" \in DOMAIN credited
             THEN [users |->
                     [id \in DOMAIN credited |->
                        IF id = "Alice"
                        THEN add_note(remove_note(credited[id],
                                                  transaction.from_commit).user,
                                      Note("BTC", 50))
                        ELSE remove_note(credited[id],
                                         transaction.from_commit).user],
                   ret |-> TRUE]
             ELSE [users |-> credited, ret |-> FALSE]
    ELSE [users |-> us, ret |-> FALSE]

\* mutant: only the recipient is credited, Alice gets no note
verify_transaction_credits_once(us, transaction) ==
    IF transaction.to \in DOMAIN us
    THEN LET credited == [us EXCEPT ![transaction.to] =
                                add_note(@, Note("BTC", 50))]
         IN  IF "Alice" \in DOMAIN credited
             THEN [users |-> [credited EXCEPT !["Alice"] =
                                 remove_note(@, transaction.from_commit).user],
                   ret |-> TRUE]
             ELSE [users |-> credited, ret |-> FALSE]
    ELSE [users |-> us, ret |-> FALSE]

\* returns the ledger after the call and the returned bool
verify_transaction(us, transaction) ==
    IF transaction.to \in DOMAIN us
    THEN LET credited == [us EXCEPT ![transaction.to] =
                                add_note(@, Note("BTC", 50))]
         IN  IF "Alice" \in DOMAIN credited
             THEN [users |-> [credited EXCEPT !["Alice"] =
                                 add_note(remove_note(@, transaction.from_commit).user,
                                          Note("BTC", 50))],
                   ret |-> TRUE]
             ELSE [users |-> credited, ret |-> FALSE]
    ELSE [users |-> us, ret |-> FALSE]

-----------------------------------------------------------------------------
(* Ledger measures *)

RECURSIVE TotalNotes(_)
TotalNotes(us) ==
    IF DOMAIN us = {} THEN 0
    ELSE LET id == CHOOSE k \in DOMAIN us : TRUE
         IN  Len(us[id].notes)
             + TotalNotes([k \in DOMAIN us \ {id} |-> us[k]])

RECURSIVE LedgerSum(_, _)
\* sum of the amounts of one asset type over all accounts
LedgerSum(us, asset_type) ==
    IF DOMAIN us = {} THEN 0
    ELSE LET id == CHOOSE k \in DOMAIN us : TRUE
         IN  SumOf(us[id].notes, asset_type)
             + LedgerSum([k \in DOMAIN us \ {id} |-> us[k]], asset_type)

\* number of notes of a list with commitment c
CountOf(notes, c) == Cardinality({i \in 1..Len(notes) : commit(notes[i]) = c})

\* the accounts holding a note with commitment c
Owners(us, c) == {id \in DOMAIN us : CountOf(us[id].notes, c) > 0}

\* no two notes of the ledger share a commitment
NoDuplicateCommitments(us) ==
    \A id1, id2 \in DOMAIN us :
        \A i \in 1..Len(us[id1].notes), j \in 1..Len(us[id2].notes) :
            (commit(us[id1].notes[i]) = commit(us[id2].notes[j]))
                => (id1 = id2 /\ i = j)

NoArgs ==
    [from |-> NoNote, to_note |-> NoNote, id |-> "", asset_type |-> "",
     commit |-> 0]

-----------------------------------------------------------------------------
(* The program *)

\* main: HashMap::new, User::new, users.insert
Init ==
    /\ \E keys \in SUBSET Identities : users = [id \in keys |-> User_new(id)]
    /\ calls = 0
    /\ op = "new"
    /\ args = NoArgs
    /\ tx = NoTx
    /\ result = FALSE
    /\ removed = NoNote
    /\ twice = FALSE
    /\ before = users
    /\ accepted = [c \in Commits |-> 0]
    /\ distinct0 = TRUE

\* main: alice.add_note(..) while the ledger is being built
AddNote ==
    /\ calls = 0
    /\ TotalNotes(users) < MaxInitNotes
    /\ \E id \in DOMAIN users, note \in NoteInputs :
          /\ users' = [users EXCEPT ![id] = add_note(@, note)]
          /\ args' = [NoArgs EXCEPT !.id = id, !.to_note = note]
    /\ op' = "add_note"
    /\ before' = users
    /\ distinct0' = NoDuplicateCommitments(users')
    /\ UNCHANGED <<calls, tx, result, removed, twice, accepted>>

\* Transaction::new followed by verify_transaction
VerifyTransaction ==
    /\ calls < MaxCalls
    /\ \E from \in NoteInputs, to \in Recipients, to_note \in NoteInputs :
          LET transaction == Transaction_new(from, to, to_note)
              r == verify_transaction(users, transaction)
          IN  /\ users' = r.users
              /\ result' = r.ret
              /\ tx' = transaction
              /\ args' = [NoArgs EXCEPT !.from = from, !.to_note = to_note]
              /\ accepted' =
                    IF r.ret
                    THEN [accepted EXCEPT ![transaction.from_commit] = @ + 1]
                    ELSE accepted
    /\ calls' = calls + 1
    /\ op' = "verify_transaction"
    /\ before' = users
    /\ removed' = NoNote
    /\ twice' = FALSE
    /\ UNCHANGED distinct0

\* users.get_mut(id).merge_notes(asset_type)
MergeNotes ==
    /\ calls < MaxCalls
    /\ \E id \in DOMAIN users, asset_type \in AssetTypes :
          /\ users' = [users EXCEPT ![id] = merge_notes(@, asset_type)]
          /\ args' = [NoArgs EXCEPT !.id = id, !.asset_type = asset_type]
          /\ twice' = (/\ op = "merge_notes"
                       /\ args.id = id
                       /\ args.asset_type = asset_type)
    /\ calls' = calls + 1
    /\ op' = "merge_notes"
    /\ before' = users
    /\ tx' = NoTx
    /\ result' = FALSE
    /\ removed' = NoNote
    /\ UNCHANGED <<accepted, distinct0>>

Next == AddNote \/ VerifyTransaction \/ MergeNotes

Spec == Init /\ [][Next]_vars

-----------------------------------------------------------------------------
(* One account on its own *)

\* the lists of at most n notes
NoteLists(n) == UNION {[1..k -> AccountNotes] : k \in 0..n}

\* an account built by User::new and any add_note calls
InitAccount ==
    /\ \E notes \in NoteLists(MaxAccountNotes) :
          users = [id \in {"Alice"} |-> [User_new(id) EXCEPT !.notes = notes]]
    /\ calls = 0
    /\ op = "new"
    /\ args = NoArgs
    /\ tx = NoTx
    /\ result = FALSE
    /\ removed = NoNote
    /\ twice = FALSE
    /\ before = users
    /\ accepted = [c \in Commits |-> 0]
    /\ distinct0 = NoDuplicateCommitments(users)

\* users.get_mut(id).remove_note(c)
RemoveNote ==
    /\ calls < MaxCalls
    /\ \E id \in DOMAIN users, note \in AccountNotes :
          LET r == remove_note(users[id], commit(note))
          IN  /\ users' = [users EXCEPT ![id] = r.user]
              /\ removed' = r.ret
              /\ args' = [NoArgs EXCEPT !.id = id, !.commit = commit(note)]
    /\ calls' = calls + 1
    /\ op' = "remove_note"
    /\ before' = users
    /\ tx' = NoTx
    /\ result' = FALSE
    /\ twice' = FALSE
    /\ UNCHANGED <<accepted, distinct0>>

NextAccount == MergeNotes \/ RemoveNote

SpecAccount == InitAccount /\ [][NextAccount]_vars

-----------------------------------------------------------------------------
(* Properties *)

\* the last call was verify_transaction; it returned true / false
Verified == op = "verify_transaction"
Accepted == Verified /\ result
Rejected == Verified /\ ~result

\* the ledger main builds: Alice holds {BTC,100}, Bob holds nothing
MainLedger ==
    [id \in {"Alice", "Bob"} |->
        IF id = "Alice" THEN add_note(User_new(id), Note("BTC", 100))
        ELSE User_new(id)]

\* the transaction main builds
MainTransaction == Transaction_new(Note("BTC", 100), "Bob", Note("BTC", 50))

Contains(notes, note) == \E i \in 1..Len(notes) : notes[i] = note

\* C1 (Conservation): an accepted transaction leaves, for every asset type,
\* the sum of the amounts over all accounts as it was before the call; so
\* does any sequence of accepted transactions.
Conservation ==
    Accepted => \A t \in AssetTypes : LedgerSum(users, t) = LedgerSum(before, t)

\* C2 (No double spend): for every commitment C at most one call of
\* verify_transaction with from_commit = C is accepted over the ledger's
\* lifetime; later ones are rejected.
NoDoubleSpend == \A c \in Commits : accepted[c] <= 1

\* C3 (Atomicity on rejection): when verify_transaction returns false the
\* ledger, identities and every account's notes, is as it was before the call.
AtomicOnRejection == Rejected => users = before

\* C4: a transaction whose from_commit is the commitment of no note held by
\* any account is rejected and leaves the ledger unchanged (so a transaction
\* is accepted only if its source commitment is held by some account).
AcceptedOnlyIfSourceHeld ==
    (Verified /\ Owners(before, tx.from_commit) = {})
        => (~result /\ users = before)

\* C5 (No duplicate live commitments): from a ledger whose notes have
\* pairwise distinct commitments, every ledger reached by calls of
\* verify_transaction and merge_notes has pairwise distinct commitments.
NoDuplicateLiveCommitments == distinct0 => NoDuplicateCommitments(users)

\* C6: an accepted transaction removes a note with the source commitment
\* from an account that holds it, whichever identity that is (stated for a
\* source commitment other than that of the notes the call inserts, so that
\* the count of the owner's notes with this commitment drops by one); and a
\* transaction whose source note is held only by accounts other than the
\* debited account "Alice" is not accepted.
SourceRemovedFromOwner ==
    /\ (/\ Accepted
        /\ Owners(before, tx.from_commit) # {}
        /\ tx.from_commit \notin {tx.to_commit, commit(Note("BTC", 50))})
          => \E id \in Owners(before, tx.from_commit) :
                CountOf(users[id].notes, tx.from_commit)
                    = CountOf(before[id].notes, tx.from_commit) - 1
    /\ (/\ Verified
        /\ Owners(before, tx.from_commit) # {}
        /\ "Alice" \notin Owners(before, tx.from_commit))
          => ~result

\* C7: on an accepted transaction the note inserted into the account named
\* transaction.to (the last note of that account) is the destination note:
\* its commitment is transaction.to_commit and its content is the to_note
\* given to Transaction::new.
InsertedIsDestinationNote ==
    Accepted =>
        LET notes == users[tx.to].notes
        IN  /\ Len(notes) > 0
            /\ commit(notes[Len(notes)]) = tx.to_commit
            /\ notes[Len(notes)] = args.to_note

\* C8: a transaction built from a source note and a destination note whose
\* amounts or asset types differ is not accepted.
UnbalancedRejected ==
    (Verified /\ (\/ args.from.amount # args.to_note.amount
                  \/ args.from.asset_type # args.to_note.asset_type))
        => ~result

\* C9: a transaction whose recipient is not a key of the ledger is rejected
\* and the ledger is unchanged: the source note is still in its owner's
\* account and no note has been added anywhere.
RecipientNotFoundRejected ==
    (Verified /\ tx.to \notin DOMAIN before) => (~result /\ users = before)

\* witness of C9: the recipient has no account while Alice holds the source note
RecipientNotFoundWitness ==
    /\ Verified
    /\ tx.to \notin DOMAIN before
    /\ "Alice" \in DOMAIN before
    /\ CountOf(before["Alice"].notes, tx.from_commit) > 0
    /\ ~result

\* C10 (scenario of main): on the ledger where Alice holds exactly {BTC,100}
\* and Bob nothing, the transaction built from that note to Bob with
\* destination {BTC,50} is accepted; afterwards Alice holds no {BTC,100}
\* and Bob holds a {BTC,50}.
MainScenario ==
    (Verified /\ before = MainLedger /\ tx = MainTransaction)
        => /\ result
           /\ ~Contains(users["Alice"].notes, Note("BTC", 100))
           /\ Contains(users["Bob"].notes, Note("BTC", 50))

\* witness of C10: main's transaction has been applied to main's ledger
MainScenarioWitness ==
    /\ Accepted
    /\ before = MainLedger
    /\ tx = MainTransaction
    /\ args.from = Note("BTC", 100)

-----------------------------------------------------------------------------
(* Properties of one account *)

\* the last call was merge_notes / remove_note
Merged == op = "merge_notes"
Removed == op = "remove_note"

\* the notes of one asset type, in order
OfType(notes, asset_type) ==
    SelectSeq(notes, LAMBDA n : n.asset_type = asset_type)

\* the notes of every other asset type, in order
NotOfType(notes, asset_type) ==
    SelectSeq(notes, LAMBDA n : n.asset_type # asset_type)

RECURSIVE Balance(_, _)
\* the account's balance of one asset type
Balance(notes, asset_type) ==
    IF Len(notes) = 0 THEN 0
    ELSE Balance(SubSeq(notes, 1, Len(notes) - 1), asset_type)
         + (IF notes[Len(notes)].asset_type = asset_type
            THEN notes[Len(notes)].amount ELSE 0)

\* C11: merge_notes(t) on an account whose notes of type t have a non-zero
\* sum leaves exactly one note of type t, carrying that sum; the notes of
\* every other type are still there, unchanged and in the same order, and
\* every per-asset balance of the account is as before.
MergeConsolidates ==
    (Merged /\ Balance(before[args.id].notes, args.asset_type) > 0) =>
        LET b == before[args.id].notes
            a == users[args.id].notes
        IN  /\ OfType(a, args.asset_type)
                 = << Note(args.asset_type, Balance(b, args.asset_type)) >>
            /\ NotOfType(a, args.asset_type) = NotOfType(b, args.asset_type)
            /\ \A t \in AssetTypes : Balance(a, t) = Balance(b, t)

\* witness of C11: two or more notes of the merged type, of different
\* amounts, among notes of another type
MergeConsolidatesWitness ==
    /\ Merged
    /\ LET b == before[args.id].notes
       IN  /\ Len(OfType(b, args.asset_type)) >= 2
           /\ Len(NotOfType(b, args.asset_type)) >= 1
           /\ b[1].asset_type = args.asset_type
           /\ OfType(b, args.asset_type)[1].amount
                 > OfType(b, args.asset_type)[2].amount
           /\ OfType(b, args.asset_type)[2].amount > 0

\* C12: merge_notes(t) is a no-op when the account holds no note of type t
\* or when the amounts of its notes of type t sum to zero: the account's
\* notes are the same after the call as before it.
MergeNoOpOnZero ==
    (Merged /\ Balance(before[args.id].notes, args.asset_type) = 0)
        => users = before

\* C13 (Merge idempotence): after merge_notes(t) the account holds at most
\* one note of type t, and a second merge_notes(t) right after the first
\* leaves the account exactly as the first call left it.
MergeIdempotent ==
    /\ Merged => Len(OfType(users[args.id].notes, args.asset_type)) <= 1
    /\ (Merged /\ twice) => users = before

\* witness of C13: the second of two merge_notes(t) calls in a row, the
\* first having left a merged note of type t before a note of another type
MergeIdempotentWitness ==
    /\ Merged
    /\ twice
    /\ Len(OfType(before[args.id].notes, args.asset_type)) = 1
    /\ Len(before[args.id].notes) >= 2
    /\ before[args.id].notes[1].asset_type # args.asset_type

\* C14: remove_note(c) on an account holding notes with commitment c removes
\* exactly one, the earliest, returns it, and leaves every other note
\* (other notes with commitment c included) in the same relative order;
\* when no note has commitment c it returns None and changes nothing.
RemoveNoteFirstMatch ==
    Removed =>
        LET b == before[args.id].notes
            a == users[args.id].notes
            matches == {i \in 1..Len(b) : commit(b[i]) = args.commit}
        IN  IF matches = {}
            THEN removed = NoNote /\ users = before
            ELSE \E p \in matches :
                    /\ \A i \in matches : p <= i
                    /\ removed = b[p]
                    /\ Len(a) = Len(b) - 1
                    /\ \A i \in 1..Len(a) :
                          a[i] = IF i < p THEN b[i] ELSE b[i + 1]

\* witness of C14: the account held two notes with commitment c and another
\* note between them
RemoveNoteFirstMatchWitness ==
    /\ Removed
    /\ removed # NoNote
    /\ LET b == before[args.id].notes
       IN  /\ Len(b) = 3
           /\ commit(b[1]) = args.commit
           /\ commit(b[2]) # args.commit
           /\ commit(b[3]) = args.commit

-----------------------------------------------------------------------------
(* Properties of verify_transaction as written *)

\* C15: verify_transaction returns true if and only if both transaction.to
\* and "Alice" are keys of the ledger, whatever from_commit, to_commit and
\* the notes held by the accounts are.
AcceptedIffBothKeys ==
    Verified => (result <=> (tx.to \in DOMAIN before /\ "Alice" \in DOMAIN before))

\* witness of C15: a transaction accepted although no account holds a note
\* with its source commitment
AcceptedIffBothKeysWitness ==
    /\ Accepted
    /\ Owners(before, tx.from_commit) = {}
    /\ TotalNotes(before) > 0

\* C16: verify_transaction never adds or removes an identity and never
\* changes the notes of an account other than transaction.to and "Alice";
\* merge_notes on one account changes no other account.
OtherAccountsUntouched ==
    /\ Verified =>
          /\ DOMAIN users = DOMAIN before
          /\ \A id \in DOMAIN before :
                id \notin {tx.to, "Alice"} => users[id] = before[id]
    /\ Merged =>
          /\ DOMAIN users = DOMAIN before
          /\ \A id \in DOMAIN before :
                id # args.id => users[id] = before[id]

\* witness of C16: an accepted transaction to Alice while Bob holds the
\* source note
OtherAccountsUntouchedWitness ==
    /\ Accepted
    /\ tx.to = "Alice"
    /\ "Bob" \in Owners(before, tx.from_commit)

\* C17 as stated: an accepted transaction changes the ledger's total note
\* count by +1 when Alice held a note with commitment from_commit and by +2
\* otherwise.
NoteCountByAliceHolding ==
    Accepted =>
        TotalNotes(users) = TotalNotes(before)
            + (IF "Alice" \in Owners(before, tx.from_commit) THEN 1 ELSE 2)

\* the note verify_transaction has just pushed onto Alice's account is the
\* one remove_note finds
RemovesOwnCredit ==
    /\ tx.to = "Alice"
    /\ tx.from_commit = commit(Note("BTC", 50))
    /\ "Alice" \notin Owners(before, tx.from_commit)

\* C17 as amended: an accepted transaction appends a {BTC,50} to the
\* account transaction.to and a {BTC,50} to Alice's account, removes at most
\* one note, from Alice's account only; the total note count changes by +1
\* when Alice held a note with commitment from_commit, or when
\* transaction.to is "Alice" and from_commit is the commitment of {BTC,50}
\* (the note removed is then the one just appended), and by +2 otherwise.
NoteCountOnAccept ==
    Accepted =>
        LET held == "Alice" \in Owners(before, tx.from_commit)
            gone == IF held \/ RemovesOwnCredit THEN 1 ELSE 0
        IN  /\ TotalNotes(users) = TotalNotes(before) + 2 - gone
            /\ \A id \in DOMAIN before \ {"Alice"} :
                  users[id].notes =
                     IF id = tx.to
                     THEN Append(before[id].notes, Note("BTC", 50))
                     ELSE before[id].notes
            /\ Len(users["Alice"].notes) =
                  Len(before["Alice"].notes)
                     + (IF tx.to = "Alice" THEN 2 ELSE 1) - gone
            /\ users["Alice"].notes[Len(users["Alice"].notes)]
                  = Note("BTC", 50)

\* witness of C17: a transaction to Alice whose source commitment is that of
\* {BTC,50}, which Alice did not hold
NoteCountOnAcceptWitness ==
    /\ Accepted
    /\ RemovesOwnCredit
    /\ TotalNotes(users) = TotalNotes(before) + 1

====
